---- MODULE Spec2Model ----
\* State-machine model of the squint vite plugin (src/index.mjs):
\* the resolveId / load / handleHotUpdate hooks, the two registries they
\* share, the file system they read and write, and the host that calls them.
EXTENDS Integers, Sequences, FiniteSets, Bags, TLC

\* ------------------------------------------------------------------ bounds
\* largest modification time an edit of a source file can produce
MaxTime == 2
\* number of load() calls that can be suspended on the compiler at once
MaxLoads == 2

\* ------------------------------------------------------------------ paths
\* A path segment is a stem plus an extension ("" = none); a path is the
\* sequence of its segments; "/" joins them.  "." and ".." are segments
\* whose stem is the dots.  No other stem starts with a dot.
Seg(s, e) == [stem |-> s, ext |-> e]
Dir(s) == Seg(s, "")
Dot == Dir(".")
DotDot == Dir("..")

\* an import specifier: absolute ("/x/y") or not ("./x", "../x", "pkg")
Specifier(a, segs) == [abs |-> a, segs |-> segs]

Front(p) == IF p = <<>> THEN <<>> ELSE SubSeq(p, 1, Len(p) - 1)

RECURSIVE normalize(_, _)
normalize(acc, rest) ==
  IF rest = <<>> THEN acc
  ELSE IF Head(rest) = Dot THEN normalize(acc, Tail(rest))
  ELSE IF Head(rest) = DotDot THEN normalize(Front(acc), Tail(rest))
  ELSE normalize(Append(acc, Head(rest)), Tail(rest))

\* path.resolve(dir, id)
pathResolve(dir, id) ==
  IF id.abs THEN normalize(<<>>, id.segs) ELSE normalize(<<>>, dir \o id.segs)

\* path.dirname(p): textual, drops the last segment
dirname(p) == Front(p)

\* path.extname(id) of a specifier: extension of its last segment
extname(id) == IF id.segs = <<>> THEN "" ELSE id.segs[Len(id.segs)].ext

RECURSIVE commonPrefix(_, _)
commonPrefix(a, b) ==
  IF a = <<>> \/ b = <<>> THEN 0
  ELSE IF Head(a) = Head(b) THEN 1 + commonPrefix(Tail(a), Tail(b))
  ELSE 0

\* path.relative(from, to), both absolute and normalized
pathRelative(from, to) ==
  LET k == commonPrefix(from, to)
  IN  [i \in 1..(Len(from) - k) |-> DotDot] \o SubSeq(to, k + 1, Len(to))

\* `${p}.cljs`, for a path p whose last segment has no extension
appendCljs(p) ==
  IF p = <<>> THEN <<Seg("", "cljs")>>
  ELSE Front(p) \o <<Seg(p[Len(p)].stem, "cljs")>>

\* /\.cljs$/.test(s) on a sequence of segments
endsWithCljs(segs) == segs # <<>> /\ segs[Len(segs)].ext = "cljs"

\* s.replace(/\.cljs$/, ".jsx")
replaceCljsWithJsx(segs) ==
  IF endsWithCljs(segs)
  THEN Front(segs) \o <<Seg(segs[Len(segs)].stem, "jsx")>>
  ELSE segs

\* ------------------------------------------------------------------ world
Root == <<Dir("p")>>
SrcDir == Root \o <<Dir("src")>>
FileA == SrcDir \o <<Seg("a", "cljs")>>
FileB == SrcDir \o <<Seg("b", "cljs")>>
MainJs == SrcDir \o <<Seg("main", "js")>>
UtilJs == SrcDir \o <<Seg("util", "js")>>
\* the .cljs files of the project
SourceFiles == {FileA, FileB}
\* the source file under development: the one the user edits and the host
\* requests; the other one is only ever an import target
EditedFiles == {FileA}

\* file contents: the n-th version of a source text, well-formed or not, or
\* the JavaScript the compiler produces from it
Text(k, n, ok) == [kind |-> k, v |-> n, ok |-> ok]
\* the texts the n-th save of a source file can produce
SourceTexts(n) == {Text("cljs", n, ok) : ok \in BOOLEAN}

\* the squint compiler: compileString(code) rejects on a syntax error,
\* otherwise resolves to {javascript}
compileRejects(code) == ~code.ok
javascript(code) == Text("js", code.v, TRUE)

\* the specifiers and importers the host passes to resolveId
NoImporter == <<>>
Ids == { Specifier(FALSE, <<Dot, Seg("a", "cljs")>>),
         Specifier(FALSE, <<Dot, Dir("b")>>),
         Specifier(FALSE, <<Dot, Seg("b", "cljs")>>),
         Specifier(FALSE, <<Dot, Seg("util", "js")>>),
         Specifier(FALSE, <<Dir("react")>>) }

\* the pending module lists the host passes to handleHotUpdate
Module(id) == [id |-> id]
ModuleLists == { <<>>, <<Module(MainJs)>> }

\* ------------------------------------------------------------------ state
VARIABLES
  outputDir,        \* opts.outputDir || "squint_out"
  projectRoot,      \* config.root, <<>> until configResolved
  configured,       \* configResolved has run
  srcFileMap,       \* sourceFile -> <<compiledFile, srcFileModTime>>
  compiledFileMap,  \* compiledFile -> sourceFile
  content,          \* file system: path -> content of the file
  mtimeMs,          \* file system: source file -> modification time
  loads,            \* bag of the load() calls suspended at
                    \* `await compileString`, each with its live locals
  lastOp,           \* the last hook call or event, its arguments and result
  everOk,           \* sources for which a load has returned code
  okSince,          \* ... and that were not edited since it returned
  changed,          \* sources in everOk edited since, no load begun since
  failed,           \* sources whose compile was rejected, no load begun since
  superseded,       \* sources edited while a compile that has since written
                    \* was in flight, no load begun since it wrote
  resolved          \* every <<sourceFile, compiledFile>> resolveId registered

vars == <<outputDir, projectRoot, configured, srcFileMap, compiledFileMap,
          content, mtimeMs, loads, lastOp,
          everOk, okSince, changed, failed, superseded, resolved>>

registry == <<srcFileMap, compiledFileMap>>
fsVars == <<content, mtimeMs>>
history == <<everOk, okSince, changed, failed, superseded>>

\* srcFileMap[srcFile]?.[1] || 0
modTimeIn(map, srcFile) ==
  IF srcFile \in DOMAIN map THEN map[srcFile][2] ELSE 0
modTimeOf(srcFile) == modTimeIn(srcFileMap, srcFile)

\* function update that may extend the domain (obj[k] = v)
put(f, k, v) == [x \in DOMAIN f \cup {k} |-> IF x = k THEN v ELSE f[x]]

\* viteSquint(opts): lines 29-34
Init ==
  /\ outputDir \in {<<Dir("squint_out")>>}
  /\ projectRoot = <<>>
  /\ configured = FALSE
  /\ srcFileMap = <<>>
  /\ compiledFileMap = <<>>
  /\ content \in { [f \in SourceFiles \cup {MainJs, UtilJs} |->
                      IF f \in SourceFiles THEN t ELSE Text("js", 0, TRUE)]
                   : t \in SourceTexts(1) }
  /\ mtimeMs = [f \in SourceFiles |-> 1]
  /\ loads = EmptyBag
  /\ lastOp = [op |-> "init"]
  /\ everOk = {}
  /\ okSince = {}
  /\ changed = {}
  /\ failed = {}
  /\ superseded = {}
  /\ resolved = {}

\* ------------------------------------------------------------- resolveId
hasExtension(id) == extname(id) # ""

isFile(filePath) == filePath \in DOMAIN content

\* !(importPath.startsWith(".") || importPath.startsWith("/"))
isLibraryImport(id) ==
  ~ ( (~id.abs /\ id.segs # <<>> /\ Head(id.segs) \in {Dot, DotDot})
      \/ id.abs )

\* a resolveId that does not recognise the scan
isScanIgnored(options) == FALSE
\* options.scan: vite's initial scan
isScan(options) == options.scan

\* compiledFileMap[importer]; <<>> stands for undefined
srcFileOf(importer) ==
  IF importer \in DOMAIN compiledFileMap THEN compiledFileMap[importer]
  ELSE <<>>

\* a resolveId that always resolves against the importer's own directory
importBaseImporter(importer) == importer
\* srcFile || importer
importBase(importer) ==
  IF srcFileOf(importer) # <<>> THEN srcFileOf(importer) ELSE importer

\* line 49: path.resolve(dirname(srcFile || importer), id)
absPathOf(id, importer) == pathResolve(dirname(importBase(importer)), id)

\* lines 51-57: an extension-less id is probed for a sibling .cljs file
probes(id) == ~hasExtension(id)
\* a resolveId that never rewrites an extension-less id
probedIdNever(id, importer) == id
probedId(id, importer) ==
  IF probes(id) /\ isFile(appendCljs(absPathOf(id, importer)))
  THEN Specifier(TRUE, appendCljs(absPathOf(id, importer)))
  ELSE id

\* line 60
srcFileAbsPathOf(id, importer) ==
  pathResolve(dirname(importBase(importer)), id)

\* an output path computed from the importer's own directory, also when
\* the importer is a compiled module
outPathOfImporter(id, importer) ==
  projectRoot \o outputDir
    \o replaceCljsWithJsx(pathRelative(projectRoot,
                                       pathResolve(dirname(importer), id)))
\* lines 61-64: `${projectRoot}/${outputDir}/${relPath}`
outPathOf(id, importer) ==
  projectRoot \o outputDir
    \o replaceCljsWithJsx(pathRelative(projectRoot,
                                       srcFileAbsPathOf(id, importer)))

Ret(kind) == [kind |-> kind]
RetPath(p) == [kind |-> "path", path |-> p]

\* what a call of resolveId does: the value it returns (or that it throws),
\* whether it called isFile, and the registries it leaves
resolveIdResult(id, importer, options) ==
  LET same == [srcFileMap |-> srcFileMap, compiledFileMap |-> compiledFileMap,
               registered |-> FALSE, src |-> <<>>]
  IN
  IF isScan(options)
  THEN same @@ [ret |-> Ret("null"), probed |-> FALSE]
  ELSE IF importer = NoImporter
  THEN \* dirname(undefined) throws a TypeError
       same @@ [ret |-> Ret("throw"), probed |-> FALSE]
  ELSE LET id2 == probedId(id, importer)
           src == srcFileAbsPathOf(id2, importer)
           out == outPathOf(id2, importer)
       IN  IF endsWithCljs(id2.segs)
           THEN [ret |-> RetPath(out), probed |-> probes(id),
                 registered |-> TRUE, src |-> src,
                 srcFileMap |-> put(srcFileMap, src, <<out, 0>>),
                 compiledFileMap |-> put(compiledFileMap, out, src)]
           ELSE same @@
                [ret |-> IF srcFileOf(importer) # <<>> /\ ~isLibraryImport(id2)
                         THEN RetPath(absPathOf(id, importer))
                         ELSE Ret("undefined"),
                 probed |-> probes(id)]

\* resolveId(id, importer, options): lines 42-80
resolveId(id, importer, options) ==
  /\ configured
  /\ \E r \in {resolveIdResult(id, importer, options)} :
         /\ srcFileMap' = r.srcFileMap
         /\ compiledFileMap' = r.compiledFileMap
         /\ resolved' = IF r.registered
                        THEN resolved \cup {<<r.src, r.ret.path>>}
                        ELSE resolved
         /\ lastOp' = [op |-> "resolveId", scan |-> options.scan,
                       registered |-> r.registered,
                       probed |-> r.registered /\ r.probed,
                       known |-> r.registered /\ r.src \in DOMAIN srcFileMap,
                       fromCompiled |-> r.registered
                                          /\ srcFileOf(importer) # <<>>]
  /\ UNCHANGED <<outputDir, projectRoot, configured, fsVars, loads, history>>

\* configResolved(config): lines 39-41
configResolved(root) ==
  /\ ~configured
  /\ projectRoot' = root
  /\ configured' = TRUE
  /\ lastOp' = [op |-> "configResolved"]
  /\ UNCHANGED <<outputDir, registry, fsVars, loads, history, resolved>>

\* ------------------------------------------------------------------ load
\* the comparison the other way round
isStaleInverted(modTime, statMtimeMs) == modTime > statMtimeMs
\* line 90: modTime < stats.mtimeMs
isStale(modTime, statMtimeMs) == modTime < statMtimeMs

\* a record stamped with the time of the compile, later than every
\* modification time seen so far
compiledRecordNow(id, statMtimeMs) == <<id, MaxTime + 1>>
\* a record that names the output directory instead of the output file
compiledRecordDir(id, statMtimeMs) == <<dirname(id), statMtimeMs>>
\* a record stamped with the modification time the source file has when
\* the compile has finished
compiledRecordRestat(id, statMtimeMs) == <<id, mtimeMs[compiledFileMap[id]]>>
\* line 99: the record stored after a compile
compiledRecord(id, statMtimeMs) == <<id, statMtimeMs>>

\* fs.readFileSync(id): the content, or a throw when the file is missing
readFileSync(fs, id) ==
  IF id \in DOMAIN fs THEN [kind |-> "code", code |-> fs[id]] ELSE Ret("throw")

\* load(id) up to its return or its suspension at `await compileString`:
\* lines 81-96, and 101-104 when nothing is compiled
load(id) ==
  /\ configured
  /\ IF srcFileOf(id) = <<>>
     THEN /\ lastOp' = [op |-> "load", tracked |-> FALSE,
                        ret |-> Ret("null"), compiles |-> 0]
          /\ UNCHANGED <<loads, changed, failed, superseded>>
     ELSE LET srcFile == srcFileOf(id)
              stats == [mtimeMs |-> mtimeMs[srcFile]]
              modTime == modTimeOf(srcFile)
              call == [id |-> id, srcFile |-> srcFile,
                       mtimeMs |-> stats.mtimeMs, code |-> content[srcFile]]
              info == [op |-> "load", id |-> id, tracked |-> TRUE,
                       srcFile |-> srcFile,
                       cold |-> modTime = 0,
                       warm |-> srcFile \in okSince,
                       afterChange |-> srcFile \in changed,
                       afterReject |-> srcFile \in failed]
          IN  /\ IF isStale(modTime, stats.mtimeMs)
                 THEN /\ BagCardinality(loads) < MaxLoads
                      /\ loads' = loads (+) SetToBag({call})
                      /\ lastOp' = info @@ [ret |-> Ret("pending"),
                                            compiles |-> 1, call |-> call]
                 ELSE /\ lastOp' = info @@
                           [ret |-> readFileSync(content, id), compiles |-> 0]
                      /\ UNCHANGED loads
              /\ changed' = changed \ {srcFile}
              /\ failed' = failed \ {srcFile}
              /\ superseded' = superseded \ {srcFile}
  /\ UNCHANGED <<outputDir, projectRoot, configured, registry, fsVars,
                 everOk, okSince, resolved>>

\* load(id) from the resumption of `await compileString` to its return:
\* lines 96-104
loadResume(l) ==
  /\ BagIn(l, loads)
  /\ LET info == [op |-> "loadResume", id |-> l.id, srcFile |-> l.srcFile,
                  code |-> l.code, mtimeMs |-> l.mtimeMs, compiles |-> 0]
     IN  IF compileRejects(l.code)
         THEN /\ lastOp' = info @@ [ret |-> Ret("throw"), wrote |-> FALSE]
              /\ failed' = failed \cup {l.srcFile}
              /\ UNCHANGED <<srcFileMap, content, everOk, okSince,
                             superseded>>
         ELSE /\ content' = put(content, l.id, javascript(l.code))
              /\ srcFileMap' = put(srcFileMap, l.srcFile,
                                   compiledRecord(l.id, l.mtimeMs))
              /\ lastOp' = info @@ [ret |-> readFileSync(content', l.id),
                                    wrote |-> TRUE,
                                    first |-> l.srcFile \notin everOk]
              /\ everOk' = everOk \cup {l.srcFile}
              /\ okSince' = okSince \cup {l.srcFile}
              /\ superseded' = IF l.mtimeMs < mtimeMs[l.srcFile]
                               THEN superseded \cup {l.srcFile}
                               ELSE superseded
              /\ UNCHANGED failed
  /\ loads' = loads (-) SetToBag({l})
  /\ UNCHANGED <<outputDir, projectRoot, configured, compiledFileMap,
                 mtimeMs, changed, resolved>>

\* ------------------------------------------------------- handleHotUpdate
\* server.moduleGraph is the host's: the ids that have a module in it.
\* What a call of handleHotUpdate does: the value it returns, the ids it
\* hands to moduleGraph.onFileChange and the forward registry it leaves
\* (lines 110-121).

\* a hook that returns the changed module alone, without the modules the
\* host had collected
hotUpdateResultAlone(file, server, modules) ==
  IF file \in DOMAIN srcFileMap
  THEN LET compiledFile == srcFileMap[file][1]
       IN  IF compiledFile \in server.moduleGraph
           THEN [tracked |-> TRUE, live |-> TRUE,
                 invalidated |-> {compiledFile}, srcFileMap |-> srcFileMap,
                 ret |-> [kind |-> "modules",
                          modules |-> <<Module(compiledFile)>>]]
           ELSE [tracked |-> TRUE, live |-> FALSE, invalidated |-> {},
                 srcFileMap |-> srcFileMap,
                 ret |-> [kind |-> "modules", modules |-> modules]]
  ELSE [tracked |-> FALSE, live |-> FALSE, invalidated |-> {},
        srcFileMap |-> srcFileMap, ret |-> Ret("undefined")]
\* a hook that answers an untracked file with an empty module list
hotUpdateResultEmpty(file, server, modules) ==
  IF file \in DOMAIN srcFileMap
  THEN LET compiledFile == srcFileMap[file][1]
       IN  IF compiledFile \in server.moduleGraph
           THEN [tracked |-> TRUE, live |-> TRUE,
                 invalidated |-> {compiledFile}, srcFileMap |-> srcFileMap,
                 ret |-> [kind |-> "modules",
                          modules |-> Append(modules, Module(compiledFile))]]
           ELSE [tracked |-> TRUE, live |-> FALSE, invalidated |-> {},
                 srcFileMap |-> srcFileMap,
                 ret |-> [kind |-> "modules", modules |-> modules]]
  ELSE [tracked |-> FALSE, live |-> FALSE, invalidated |-> {},
        srcFileMap |-> srcFileMap,
        ret |-> [kind |-> "modules", modules |-> <<>>]]
\* a hook without the `if (module)` test: it invalidates and appends
\* whatever getModuleById returned
hotUpdateResultUnchecked(file, server, modules) ==
  IF file \in DOMAIN srcFileMap
  THEN LET compiledFile == srcFileMap[file][1]
       IN  [tracked |-> TRUE, live |-> compiledFile \in server.moduleGraph,
            invalidated |-> {compiledFile}, srcFileMap |-> srcFileMap,
            ret |-> [kind |-> "modules",
                     modules |-> Append(modules, Module(compiledFile))]]
  ELSE [tracked |-> FALSE, live |-> FALSE, invalidated |-> {},
        srcFileMap |-> srcFileMap, ret |-> Ret("undefined")]
\* a hook that marks the changed source as never compiled
hotUpdateResultReset(file, server, modules) ==
  IF file \in DOMAIN srcFileMap
  THEN LET compiledFile == srcFileMap[file][1]
           reset == put(srcFileMap, file, <<compiledFile, 0>>)
       IN  IF compiledFile \in server.moduleGraph
           THEN [tracked |-> TRUE, live |-> TRUE,
                 invalidated |-> {compiledFile}, srcFileMap |-> reset,
                 ret |-> [kind |-> "modules",
                          modules |-> Append(modules, Module(compiledFile))]]
           ELSE [tracked |-> TRUE, live |-> FALSE, invalidated |-> {},
                 srcFileMap |-> reset,
                 ret |-> [kind |-> "modules", modules |-> modules]]
  ELSE [tracked |-> FALSE, live |-> FALSE, invalidated |-> {},
        srcFileMap |-> srcFileMap, ret |-> Ret("undefined")]
hotUpdateResult(file, server, modules) ==
  IF file \in DOMAIN srcFileMap
  THEN LET compiledFile == srcFileMap[file][1]
       IN  IF compiledFile \in server.moduleGraph
           THEN [tracked |-> TRUE, live |-> TRUE,
                 invalidated |-> {compiledFile}, srcFileMap |-> srcFileMap,
                 ret |-> [kind |-> "modules",
                          modules |-> Append(modules, Module(compiledFile))]]
           ELSE [tracked |-> TRUE, live |-> FALSE, invalidated |-> {},
                 srcFileMap |-> srcFileMap,
                 ret |-> [kind |-> "modules", modules |-> modules]]
  ELSE \* the function ends without a return statement
       [tracked |-> FALSE, live |-> FALSE, invalidated |-> {},
        srcFileMap |-> srcFileMap, ret |-> Ret("undefined")]

\* handleHotUpdate({file, server, modules}): lines 106-122
handleHotUpdate(file, server, modules) ==
  /\ configured
  /\ \E r \in {hotUpdateResult(file, server, modules)} :
         /\ srcFileMap' = r.srcFileMap
         /\ lastOp' = [op |-> "handleHotUpdate", tracked |-> r.tracked,
                       live |-> r.live]
  /\ UNCHANGED <<outputDir, projectRoot, configured, compiledFileMap, fsVars,
                 loads, history, resolved>>

\* ------------------------------------------------------------ environment
\* the user saves a source file: new text, later modification time
edit(f, ok) ==
  /\ mtimeMs[f] < MaxTime
  /\ mtimeMs' = [mtimeMs EXCEPT ![f] = @ + 1]
  /\ content' = [content EXCEPT ![f] = Text("cljs", mtimeMs[f] + 1, ok)]
  /\ okSince' = okSince \ {f}
  /\ changed' = IF f \in everOk THEN changed \cup {f} ELSE changed
  /\ lastOp' = [op |-> "edit", file |-> f]
  /\ UNCHANGED <<outputDir, projectRoot, configured, registry, loads,
                 everOk, failed, superseded, resolved>>

\* the ids the host requests: an ordinary file, and the compiled modules
\* of the files under development
LoadIds ==
  {MainJs} \cup {id \in DOMAIN compiledFileMap :
                   compiledFileMap[id] \in EditedFiles}

\* the host's module graph when a file changes: it holds the modules of
\* some of the requested ids
Servers == {[moduleGraph |-> g] : g \in SUBSET (LoadIds \ {MainJs})}

Importers == {NoImporter, MainJs} \cup DOMAIN compiledFileMap

Next ==
  \/ configResolved(Root)
  \/ \E id \in Ids, importer \in Importers, scan \in BOOLEAN :
       resolveId(id, importer, [scan |-> scan])
  \/ \E id \in LoadIds : load(id)
  \/ \E l \in BagToSet(loads) : loadResume(l)
  \/ \E file \in EditedFiles \cup {UtilJs}, server \in Servers,
        modules \in ModuleLists :
       handleHotUpdate(file, server, modules)
  \/ \E f \in EditedFiles, ok \in BOOLEAN : edit(f, ok)

Spec == Init /\ [][Next]_vars

\* ------------------------------------------------- file system failures
\* what writeFileSync can leave at the id when it throws part-way
partial(code) == Text("partial", code.v, TRUE)

\* the file system calls of load before the await, and the branch each is on
FsCallsOfLoad == {"statSync", "readSource", "readArtifact"}
\* the file system calls of load after the await
FsCallsOfResume == {"mkdirSync", "writeFileSync", "readArtifact"}
\* what a writeFileSync that throws leaves of the file
Leftovers == {"intact", "partial"}

\* load(id) when one of its file system calls before the await throws:
\* statSync (line 86), readFileSync of the source (line 95, stale branch),
\* readFileSync of the artifact (line 103, fresh branch)
loadThrows(id, at) ==
  /\ configured
  /\ srcFileOf(id) # <<>>
  /\ LET srcFile == srcFileOf(id)
         stale == isStale(modTimeOf(srcFile), mtimeMs[srcFile])
     IN  /\ at = "readSource" => stale
         /\ at = "readArtifact" => ~stale
         /\ lastOp' = [op |-> "load", id |-> id, tracked |-> TRUE,
                       srcFile |-> srcFile, fsFailed |-> at,
                       ret |-> Ret("throw"), compiles |-> 0]
         /\ changed' = changed \ {srcFile}
         /\ failed' = failed \ {srcFile}
         /\ superseded' = superseded \ {srcFile}
  /\ UNCHANGED <<outputDir, projectRoot, configured, registry, fsVars, loads,
                 everOk, okSince, resolved>>

\* load(id) from the resumption of the await when one of its file system
\* calls throws: mkdirSync (line 97), writeFileSync (line 98), or
\* readFileSync of the artifact (line 103, after lines 98-99 have run)
loadResumeThrows(l, at, left) ==
  /\ BagIn(l, loads)
  /\ ~compileRejects(l.code)
  /\ IF at = "readArtifact"
     THEN /\ content' = put(content, l.id, javascript(l.code))
          /\ srcFileMap' = put(srcFileMap, l.srcFile,
                               compiledRecord(l.id, l.mtimeMs))
     ELSE /\ content' = IF at = "writeFileSync" /\ left = "partial"
                        THEN put(content, l.id, partial(javascript(l.code)))
                        ELSE content
          /\ UNCHANGED srcFileMap
  /\ lastOp' = [op |-> "loadResume", id |-> l.id, srcFile |-> l.srcFile,
                code |-> l.code, mtimeMs |-> l.mtimeMs, compiles |-> 0,
                fsFailed |-> at, wrote |-> at = "readArtifact",
                ret |-> Ret("throw")]
  /\ loads' = loads (-) SetToBag({l})
  /\ UNCHANGED <<outputDir, projectRoot, configured, compiledFileMap,
                 mtimeMs, history, resolved>>

\* the plugin on a file system whose calls can fail
NextFs ==
  \/ Next
  \/ \E id \in LoadIds, at \in FsCallsOfLoad : loadThrows(id, at)
  \/ \E l \in BagToSet(loads), at \in FsCallsOfResume, left \in Leftovers :
       loadResumeThrows(l, at, left)

SpecFs == Init /\ [][NextFs]_vars

TypeOK ==
  /\ \A s \in DOMAIN srcFileMap : srcFileMap[s][2] \in 0..(MaxTime + 1)
  /\ BagCardinality(loads) <= MaxLoads

\* ------------------------------------------------------------------ claims
\* the load calls on id that are suspended on their own compiler invocation
compiling(id) == {l \in BagToSet(loads) : l.id = id}

NoScan == [scan |-> FALSE]
Scan == [scan |-> TRUE]

\* C1: two load calls on the same outputId that both start while its source
\* is stale invoke the compiler once between them: no second call on an id
\* starts a compile of its own while one is in flight.
C1_OneCompilePerStaleness ==
  \A id \in DOMAIN compiledFileMap :
    /\ Cardinality(compiling(id)) <= 1
    /\ \A l \in compiling(id) : CopiesIn(l, loads) = 1

\* C2: a resolveId that registers an already registered source file leaves
\* the srcFileModTime of every registered source file as it was.
C2_ResolveKeepsModTime ==
  [][ (lastOp'.op = "resolveId" /\ lastOp'.known)
        => \A s \in DOMAIN srcFileMap :
             modTimeIn(srcFileMap', s) = modTimeIn(srcFileMap, s) ]_vars

\* C3: the srcFileModTime of a source file never decreases, and it changes
\* only in the step of a load that compiled and wrote the artifact.
C3_ModTimeMonotonic ==
  [][ \A s \in SourceFiles :
        /\ modTimeIn(srcFileMap', s) >= modTimeIn(srcFileMap, s)
        /\ modTimeIn(srcFileMap', s) # modTimeIn(srcFileMap, s)
             => /\ lastOp'.op = "loadResume"
                /\ lastOp'.srcFile = s
                /\ lastOp'.wrote ]_vars

\* C4: a load of an id whose source was not edited since an earlier load of
\* it returned code invokes the compiler zero times and returns the
\* persisted artifact.
C4_WarmLoad ==
  (lastOp.op = "load" /\ lastOp.tracked /\ lastOp.warm)
    => /\ lastOp.compiles = 0
       /\ lastOp.ret = readFileSync(content, lastOp.id)

\* C5: when the compiler rejects, the load throws, writes nothing and
\* leaves srcFileModTime as it was, and the next load of the same id invokes
\* the compiler again.
C5_RejectThenRetry ==
  [][ /\ (lastOp'.op = "loadResume" /\ compileRejects(lastOp'.code))
           => /\ lastOp'.ret = Ret("throw")
              /\ ~lastOp'.wrote
              /\ UNCHANGED <<content, srcFileMap>>
      /\ (lastOp'.op = "load" /\ lastOp'.tracked /\ lastOp'.afterReject)
           => lastOp'.compiles = 1 ]_vars

\* C6: a load of a registered source whose srcFileModTime is the
\* never-compiled 0 invokes the compiler exactly once: once on its way to
\* the await, and no load invokes it after the await; and a load that
\* returns code after its compile has written the compiled text at the id
\* first and returns what it wrote.
C6_ColdLoad ==
  /\ (lastOp.op = "load" /\ lastOp.tracked /\ lastOp.cold)
       => /\ lastOp.compiles = 1
          /\ lastOp.ret = Ret("pending")
          /\ BagIn(lastOp.call, loads)
  /\ lastOp.op = "loadResume"
       => /\ lastOp.compiles = 0
          /\ lastOp.ret.kind = "code"
               => /\ lastOp.wrote
                  /\ content[lastOp.id] = javascript(lastOp.code)
                  /\ lastOp.ret.code = content[lastOp.id]

\* the first load of a source that returns code: it began at srcFileModTime 0
C6_ColdLoadReturned ==
  /\ lastOp.op = "loadResume"
  /\ lastOp.ret.kind = "code"
  /\ lastOp.first

\* C7: the first load begun after an edit that followed a successful load
\* invokes the compiler exactly once, on the text the edit saved, and the
\* code a load returns after its compile is the compilation of the text it
\* read when it began.
C7_RecompileOnChange ==
  /\ (lastOp.op = "load" /\ lastOp.tracked /\ lastOp.afterChange)
       => /\ lastOp.compiles = 1
          /\ lastOp.call.code = content[lastOp.srcFile]
          /\ lastOp.call.code.v = mtimeMs[lastOp.srcFile]
          /\ BagIn(lastOp.call, loads)
  /\ lastOp.op = "loadResume"
       => /\ lastOp.compiles = 0
          /\ lastOp.ret.kind = "code"
               => lastOp.ret.code = javascript(lastOp.code)

C7_LoadAfterChange ==
  /\ lastOp.op = "load"
  /\ lastOp.tracked
  /\ lastOp.afterChange
  /\ lastOp.srcFile \in everOk
  /\ mtimeMs[lastOp.srcFile] > 1
  /\ content[lastOp.id].v < mtimeMs[lastOp.srcFile]

\* C8: the forward map sends s to o exactly when the reverse map sends o
\* to s.
C8_MapsConsistent ==
  /\ \A s \in DOMAIN srcFileMap :
       /\ srcFileMap[s][1] \in DOMAIN compiledFileMap
       /\ compiledFileMap[srcFileMap[s][1]] = s
  /\ \A o \in DOMAIN compiledFileMap :
       /\ compiledFileMap[o] \in DOMAIN srcFileMap
       /\ srcFileMap[compiledFileMap[o]][1] = o

C8_BothRegisteredAndCompiled ==
  /\ DOMAIN srcFileMap = SourceFiles
  /\ \E s \in SourceFiles : modTimeOf(s) > 0
  /\ loads # EmptyBag

\* C9: every resolveId that targets a source file returns the same compiled
\* file for it, whatever the importer and whatever was loaded in between:
\* no source file ever gets two compiled files, and a call that targets a
\* registered source file returns the compiled file registered for it.
C9_IdempotentMapping ==
  /\ \A x \in resolved, y \in resolved : x[1] = y[1] => x[2] = y[2]
  /\ \A s \in DOMAIN srcFileMap : <<s, srcFileMap[s][1]>> \in resolved
  /\ \A id \in Ids, importer \in Importers :
       \A r \in {resolveIdResult(id, importer, NoScan)} :
         (r.registered /\ r.src \in DOMAIN srcFileMap)
           => r.ret.path = srcFileMap[r.src][1]

C9_ResolvedAgainFromCompiled ==
  /\ lastOp.op = "resolveId"
  /\ lastOp.registered
  /\ lastOp.known
  /\ lastOp.fromCompiled
  /\ everOk # {}

\* C10: during the scan, resolveId returns null for every specifier and
\* importer, probes no file and leaves both registries unchanged.
C10_ScanIsNoOp ==
  /\ [](configured => \A id \in Ids, importer \in Importers :
          \A r \in {resolveIdResult(id, importer, Scan)} :
            /\ r.ret = Ret("null")
            /\ ~r.probed
            /\ ~r.registered
            /\ r.srcFileMap = srcFileMap
            /\ r.compiledFileMap = compiledFileMap)
  /\ [][ (lastOp'.op = "resolveId" /\ lastOp'.scan)
           => (~lastOp'.registered /\ UNCHANGED registry) ]_vars

\* a scan call in a state where the same call outside the scan registers
C10_ScanOfSourceFile ==
  /\ lastOp.op = "resolveId"
  /\ lastOp.scan
  /\ srcFileMap # <<>>
  /\ \E id \in Ids, importer \in Importers :
       resolveIdResult(id, importer, NoScan).registered

\* the files whose change the host reports, with every module graph and
\* every pending list it may pass
HotFiles == EditedFiles \cup {UtilJs}

\* C11: handleHotUpdate for a registered source file whose compiled file has
\* a module in the host's graph hands exactly that compiled file to
\* onFileChange and returns the pending modules, in their order, followed
\* by that module.
C11_ChangeAfterLoad ==
  configured =>
    \A file \in HotFiles, server \in Servers, modules \in ModuleLists :
      \A r \in {hotUpdateResult(file, server, modules)} :
        (file \in DOMAIN srcFileMap
           /\ srcFileMap[file][1] \in server.moduleGraph)
          => /\ r.invalidated = {srcFileMap[file][1]}
             /\ r.ret.kind = "modules"
             /\ \A i \in 1..Len(modules) : r.ret.modules[i] = modules[i]
             /\ Len(r.ret.modules) = Len(modules) + 1
             /\ r.ret.modules[Len(modules) + 1] = Module(srcFileMap[file][1])

\* a change of a registered file whose module is in the graph, after a load
\* has compiled it
C11_ChangedAfterLoad ==
  /\ lastOp.op = "handleHotUpdate"
  /\ lastOp.tracked
  /\ lastOp.live
  /\ FileA \in everOk

\* C12 as stated: handleHotUpdate for a file that is not registered returns
\* the pending module list it was given.
C12_UntrackedReturnsList ==
  configured =>
    \A file \in HotFiles, server \in Servers, modules \in ModuleLists :
      file \notin DOMAIN srcFileMap
        => hotUpdateResult(file, server, modules).ret
             = [kind |-> "modules", modules |-> modules]

\* C12: handleHotUpdate for a file that is not registered returns undefined,
\* no module list at all, and hands nothing to onFileChange: the host keeps
\* the pending list it has.
C12_UntrackedReturnsUndefined ==
  configured =>
    \A file \in HotFiles, server \in Servers, modules \in ModuleLists :
      \A r \in {hotUpdateResult(file, server, modules)} :
        file \notin DOMAIN srcFileMap
          => /\ r.ret = Ret("undefined")
             /\ r.invalidated = {}

\* a change of an unregistered file while other files are registered
C12_UntrackedChanged ==
  /\ lastOp.op = "handleHotUpdate"
  /\ ~lastOp.tracked
  /\ srcFileMap # <<>>

\* C13: handleHotUpdate for a registered source file whose compiled file has
\* no module in the host's graph returns the pending module list as it was
\* given, does not throw and hands nothing to onFileChange.
C13_ChangeBeforeLoad ==
  configured =>
    \A file \in HotFiles, server \in Servers, modules \in ModuleLists :
      \A r \in {hotUpdateResult(file, server, modules)} :
        (file \in DOMAIN srcFileMap
           /\ srcFileMap[file][1] \notin server.moduleGraph)
          => /\ r.ret = [kind |-> "modules", modules |-> modules]
             /\ r.invalidated = {}

\* a change of a registered file that has no module in the graph
C13_ChangedBeforeLoad ==
  /\ lastOp.op = "handleHotUpdate"
  /\ lastOp.tracked
  /\ ~lastOp.live

\* C14: a handleHotUpdate call starts no compile, writes no file and leaves
\* both registries, with every srcFileModTime, as they were, whatever file,
\* graph and pending list it is given; a compile starts only in a step of
\* load, and a compiled file is written only in the step that resumes one.
C14_HotUpdateCompilesNothing ==
  /\ [](configured =>
          \A file \in HotFiles, server \in Servers, modules \in ModuleLists :
            hotUpdateResult(file, server, modules).srcFileMap = srcFileMap)
  /\ [][ /\ lastOp'.op = "handleHotUpdate"
             => UNCHANGED <<srcFileMap, compiledFileMap, content, mtimeMs,
                            loads>>
         /\ (\E l \in BagToSet(loads') : CopiesIn(l, loads') > CopiesIn(l, loads))
             => lastOp'.op = "load"
         /\ (\E o \in DOMAIN compiledFileMap' :
               o \in DOMAIN content' /\ (o \in DOMAIN content => content'[o] # content[o]))
             => lastOp'.op = "loadResume" ]_vars

\* a change of a compiled, registered file whose module is in the graph,
\* reported while its source is stale
C14_ChangedWhileStale ==
  /\ lastOp.op = "handleHotUpdate"
  /\ lastOp.tracked
  /\ lastOp.live
  /\ modTimeOf(FileA) > 0
  /\ modTimeOf(FileA) < mtimeMs[FileA]

\* the compiled file of a source file
OutOf(srcFile) ==
  projectRoot \o outputDir
    \o replaceCljsWithJsx(pathRelative(projectRoot, srcFile))
\* a module outside the source directory that is no compiled file
LibJs == Root \o <<Dir("lib"), Seg("x", "js")>>
LibB == Root \o <<Dir("lib"), Seg("b", "cljs")>>
\* extension-less specifiers: relative, bare, and through the parent
ExtlessIds == { Specifier(FALSE, <<Dot, Dir("a")>>),
                Specifier(FALSE, <<Dot, Dir("b")>>),
                Specifier(FALSE, <<Dir("b")>>),
                Specifier(FALSE, <<DotDot, Dir("src"), Dir("b")>>),
                Specifier(TRUE, SrcDir \o <<Dir("b")>>) }
\* the same specifier with the extension written out
withCljs(id) == Specifier(id.abs, appendCljs(id.segs))
\* the importers of the model and one in another directory
AllImporters == Importers \cup {LibJs}

\* The states a resolveId call during the scan leaves.  Such a call is
\* possible in every state after configResolved and changes nothing but
\* lastOp, so every reachable registry and file system occurs in one of
\* them: what holds of every call resolveId could take in these states
\* holds of every call it could take in any state.
afterScanCall == configured /\ lastOp.op = "resolveId" /\ lastOp.scan

\* C15: outside the scan, for every importer, an extension-less specifier
\* whose sibling .cljs file exists resolves as the same specifier with
\* .cljs written out does from that importer: same returned compiled file,
\* same source registered, same registries afterwards.
C15_ExtensionlessEquivalence ==
  afterScanCall =>
    \A id \in ExtlessIds, importer \in AllImporters \ {NoImporter} :
      isFile(appendCljs(pathResolve(dirname(importBase(importer)), id)))
        => \A r \in {resolveIdResult(id, importer, NoScan)},
              q \in {resolveIdResult(withCljs(id), importer, NoScan)} :
             /\ q.registered
             /\ r.registered
             /\ r.ret = q.ret
             /\ r.src = q.src
             /\ r.srcFileMap = q.srcFileMap
             /\ r.compiledFileMap = q.compiledFileMap

\* ./b was resolved, from a compiled module, to the compiled file of b.cljs
C15_ExtensionlessResolved ==
  /\ lastOp.op = "resolveId"
  /\ lastOp.registered
  /\ lastOp.probed
  /\ lastOp.fromCompiled
  /\ srcFileMap[FileB] = <<OutOf(FileB), 0>>

\* the specifiers of the model, the extension-less ones, one that names a
\* source file through the parent directory, and an absolute ordinary file
AllIds ==
  Ids \cup ExtlessIds
      \cup { Specifier(FALSE, <<DotDot, Dir("src"), Seg("b", "cljs")>>),
             Specifier(FALSE, <<DotDot, Dir("lib"), Seg("b", "cljs")>>),
             Specifier(TRUE, UtilJs) }

\* the directory resolveId is to join the specifier onto
baseDir(importer) ==
  IF importer \in DOMAIN compiledFileMap
  THEN dirname(compiledFileMap[importer])
  ELSE dirname(importer)

\* C17: a resolveId that registers a source file has joined the specifier
\* onto the directory of the importer's source file when the importer is a
\* registered compiled file, and onto the importer's own directory
\* otherwise.  With root /p: ./a.cljs from /p/src/main.js gives
\* /p/<outputDir>/src/a.jsx, and ./b from that compiled file gives
\* /p/<outputDir>/src/b.jsx and registers /p/src/b.cljs; from a module in
\* /p/lib, ./b.cljs registers /p/lib/b.cljs.
C17_ResolveBase ==
  afterScanCall =>
    /\ \A id \in AllIds, importer \in AllImporters \ {NoImporter} :
         \A r \in {resolveIdResult(id, importer, NoScan)} :
           r.registered
             => /\ r.src \in { pathResolve(baseDir(importer), id),
                               appendCljs(pathResolve(baseDir(importer), id)) }
                /\ r.ret = RetPath(OutOf(r.src))
                /\ r.srcFileMap[r.src] = <<OutOf(r.src), 0>>
                /\ r.compiledFileMap[OutOf(r.src)] = r.src
    /\ \A r \in {resolveIdResult(Specifier(FALSE, <<Dot, Seg("a", "cljs")>>),
                                 MainJs, NoScan)} :
         /\ r.ret = RetPath(Root \o outputDir
                              \o <<Dir("src"), Seg("a", "jsx")>>)
         /\ r.src = FileA
    /\ OutOf(FileA) \in DOMAIN compiledFileMap
         => \A r \in {resolveIdResult(Specifier(FALSE, <<Dot, Dir("b")>>),
                                      OutOf(FileA), NoScan)} :
              /\ r.ret = RetPath(Root \o outputDir
                                   \o <<Dir("src"), Seg("b", "jsx")>>)
              /\ r.registered
              /\ r.src = FileB
              /\ FileB \in DOMAIN r.srcFileMap
    /\ \A r \in {resolveIdResult(Specifier(FALSE, <<Dot, Seg("b", "cljs")>>),
                                 LibJs, NoScan)} :
         r.src = LibB

\* a.cljs was resolved and, from its compiled file, so was b
C17_ResolvedFromCompiledModule ==
  /\ lastOp.op = "resolveId"
  /\ lastOp.registered
  /\ lastOp.fromCompiled
  /\ lastOp.probed
  /\ ~lastOp.known
  /\ OutOf(FileA) \in DOMAIN compiledFileMap
  /\ OutOf(FileB) \in DOMAIN compiledFileMap

\* a specifier that resolveId does not take for a source file
nonSource(id, importer) ==
  /\ ~endsWithCljs(id.segs)
  /\ ~ ( /\ probes(id)
         /\ importer # NoImporter
         /\ isFile(appendCljs(pathResolve(baseDir(importer), id))) )

\* C18: for a specifier that does not resolve to a source file, resolveId
\* outside the scan returns the absolute path joined on the source
\* directory when the importer is a registered compiled file and the
\* specifier is relative or absolute, returns undefined when the specifier
\* is a bare name or the importer is not a registered compiled file, and
\* leaves both registries as they were.
C18_NonSourceSpecifier ==
  configured =>
    \A id \in AllIds, importer \in AllImporters :
      \A r \in {resolveIdResult(id, importer, NoScan)} :
        nonSource(id, importer)
          => /\ r.srcFileMap = srcFileMap
             /\ r.compiledFileMap = compiledFileMap
             /\ (importer \in DOMAIN compiledFileMap /\ ~isLibraryImport(id))
                  => r.ret = RetPath(pathResolve(baseDir(importer), id))
             /\ (importer \notin DOMAIN compiledFileMap \/ isLibraryImport(id))
                  => r.ret = Ret("undefined")

\* C19: a load that compiled and wrote stores the modification time it
\* observed before it called the compiler; an edit leaves the suspended
\* loads as they are; and when the source was edited while a compile that
\* has since written was in flight, the next load begun after that compile
\* wrote invokes the compiler.
C19_SupersedingEdit ==
  [][ /\ (lastOp'.op = "loadResume" /\ lastOp'.wrote)
           => modTimeIn(srcFileMap', lastOp'.srcFile) = lastOp'.mtimeMs
      /\ lastOp'.op = "edit" => loads' = loads
      /\ (lastOp'.op = "load" /\ lastOp'.tracked
            /\ lastOp'.srcFile \in superseded)
           => lastOp'.compiles = 1 ]_vars

\* C20: whenever the srcFileModTime of a registered source file equals the
\* file's modification time, the compiled file holds the compilation of the
\* file's current text; and a load that does not compile returns the
\* compilation of the current text.
C20_Freshness ==
  /\ \A s \in DOMAIN srcFileMap :
       (s \in DOMAIN mtimeMs /\ modTimeOf(s) = mtimeMs[s])
         => /\ srcFileMap[s][1] \in DOMAIN content
            /\ content[srcFileMap[s][1]] = javascript(content[s])
  /\ (lastOp.op = "load" /\ lastOp.tracked /\ lastOp.compiles = 0)
       => lastOp.ret = [kind |-> "code",
                        code |-> javascript(content[lastOp.srcFile])]

\* a load that did not compile returned the compilation of an edited text
\* while a compile of an older text was still in flight
C20_SkippedWhileOlderInFlight ==
  /\ lastOp.op = "load"
  /\ lastOp.tracked
  /\ lastOp.compiles = 0
  /\ mtimeMs[lastOp.srcFile] > 1
  /\ \E l \in BagToSet(loads) :
       l.srcFile = lastOp.srcFile /\ l.mtimeMs < mtimeMs[l.srcFile]

\* C16: a load whose file system call fails throws; a load whose write did
\* not complete leaves srcFileModTime as it was; no registered compiled
\* file is ever left partial while its source counts as fresh; and a load
\* that returns code without compiling returns a complete compiled text.
C16_FsFailureSafe ==
  /\ []( "fsFailed" \in DOMAIN lastOp => lastOp.ret = Ret("throw") )
  /\ [][ (lastOp'.op = "loadResume" /\ ~lastOp'.wrote)
           => UNCHANGED srcFileMap ]_vars
  /\ []( \A s \in DOMAIN srcFileMap :
           (srcFileMap[s][1] \in DOMAIN content
              /\ content[srcFileMap[s][1]].kind = "partial")
             => isStale(modTimeOf(s), mtimeMs[s]) )
  /\ []( (lastOp.op = "load" /\ lastOp.tracked /\ lastOp.ret.kind = "code")
           => lastOp.ret.code.kind = "js" )
====
